---- MODULE Spec2Model ----
(***************************************************************************)
(* A model of react-mosaicify: the Mosaicify component (src/mosaicify.tsx) *)
(* and the Tooltip component (src/tooltip.tsx).                            *)
(*                                                                         *)
(* A render of Mosaicify is the call of the function component.  It is     *)
(* modelled in three steps that nothing can interleave with: Render (the   *)
(* body up to and including the gridItems useMemo), RenderTile (one call   *)
(* of the gridItems.map callback) and Commit (the element is returned and  *)
(* React reconciles the children).  Math.random is a nondeterministic      *)
(* choice; Array.prototype.sort with a random comparator is a free choice  *)
(* of a permutation.  A render that throws unmounts the instance.          *)
(***************************************************************************)
EXTENDS Integers, Sequences, FiniteSets, TLC

\* ------------------------------------------------------------------ bounds
\* Longest data list the caller passes.
MaxLen == 2
\* Largest value the caller passes for minNumberOfImages / maxNumberOfImages.
MaxCount == 2
\* Number of distinct arrays with the same contents the caller holds.
NumCopies == 2

\* ------------------------------------------------------- program constants
DefaultMin == 5
DefaultMax == 10
OneByOneSlots == 10
TwoByTwoSlots == 3
ThreeByThreeSlots == 1

\* ------------------------------------------------------------- data model
AllIds == <<"a", "b", "c", "d", "e">>
Ids == {AllIds[i] : i \in 1..MaxLen}

ImageUrl ==
    [a |-> "https://example.com/a.jpg", b |-> "https://example.com/b.jpg",
     c |-> "https://example.com/c.jpg", d |-> "https://example.com/d.jpg",
     e |-> "https://example.com/e.jpg"]

\* An element of MosaicifyProps["data"]: id and imageUrl are required,
\* onClick is optional (the first id has one, the others have none), and
\* [key: string]: any admits any other field: the second id has a field of
\* its own that is named type.
Item(id) ==
    IF id = AllIds[1]
    THEN [id |-> id, imageUrl |-> ImageUrl[id], onClick |-> "handler"]
    ELSE IF id = AllIds[2]
         THEN [id |-> id, imageUrl |-> ImageUrl[id], type |-> "video"]
         ELSE [id |-> id, imageUrl |-> ImageUrl[id]]

\* The id lists the caller builds its arrays from: the contiguous runs of
\* AllIds[1..MaxLen], the empty list included.  Ids are unique in a list.
DataLists ==
    {<<>>} \cup {SubSeq(AllIds, i, j) : i \in 1..MaxLen, j \in 1..MaxLen}

\* An array object of the caller.  Two arrays with the same contents are
\* different objects (Object.is), so a reference names the contents the
\* caller created the array with and which of the copies it is.
DataRefs == [items : DataLists, copy : 1..NumCopies]
NoRef == [items |-> <<>>, copy |-> 0]

\* An optional number prop: <<>> is undefined, <<n>> is the number n.
Undefined == <<>>
OptNumbers == {Undefined} \cup {<<n>> : n \in 0..MaxCount}

\* withTooltip: undefined, or a function given by the set of ids for which
\* it returns non-empty content.
NoTooltipFn == [defined |-> FALSE, content |-> {}]
TooltipFns ==
    {NoTooltipFn,
     [defined |-> TRUE, content |-> Ids],
     [defined |-> TRUE, content |-> {AllIds[1]}]}

MosaicifyProps ==
    [data : DataRefs,
     minNumberOfImages : OptNumbers,
     maxNumberOfImages : OptNumbers,
     withTooltip : TooltipFns]

NoProps ==
    [data |-> NoRef, minNumberOfImages |-> Undefined,
     maxNumberOfImages |-> Undefined, withTooltip |-> NoTooltipFn]

\* -------------------------------------------------------------- variables
VARIABLES
    dataArray,    \* the elements, as they are now, of the array props.data
    props,        \* the props of the render in progress or of the last one
    mounted,      \* a Mosaicify instance is mounted (its hooks hold state)
    memoDeps,     \* deps of the gridItems useMemo: the data array it saw
    gridItems,    \* the memoized value of the gridItems useMemo
    recomputed,   \* the gridItems factory ran in the render in progress
    children,     \* the children built so far by the render in progress
    tiles,        \* the children of the last committed render
    pc,           \* "idle", or "map": a render is inside gridItems.map
    error,        \* the message of the Error the last render threw, or NoError
    randomCalls,  \* Math.random draws made by the render in progress
    tooltipCalls, \* withTooltip invocations made by the render in progress
    tooltips      \* mounted Tooltip instances: key -> [isVisible, last]

vars ==
    <<dataArray, props, mounted, memoDeps, gridItems, recomputed, children, tiles,
      pc, error, randomCalls, tooltipCalls, tooltips>>

\* ---------------------------------------------------------------- helpers
NoError == "none"
ErrTogether == "minNumberOfImages and maxNumberOfImages must be provided together"
ErrOrder == "minNumberOfImages must be less than or equal to maxNumberOfImages"

\* A destructuring default: the default replaces undefined only.
WithDefault(x, d) == IF x = Undefined THEN d ELSE x[1]

\* JavaScript truthiness of a number (NaN is not in the model).
Truthy(n) == n # 0

Min(a, b) == IF a < b THEN a ELSE b

\* RandomInt with the upper end included, as Math.round would give.
RandomIntInclusive(n) == 0..n

\* The values Math.floor(Math.random() * n) can take, Math.random() being
\* in [0, 1): 0..n-1 for a positive n, and n..0 for the others.
RandomInt(n) == IF n > 0 THEN 0..(n - 1) ELSE n..0

\* The results an in-place sort with the comparator
\* () => Math.random() - 0.5 can leave: any order of the elements.
OrdersOf(n) ==
    {f \in [1..n -> 1..n] : \A i, j \in 1..n : f[i] = f[j] => i = j}
PermsOfLen == [n \in 0..MaxLen |-> OrdersOf(n)]
Perms(n) == PermsOfLen[n]
Reorder(s, f) == [i \in 1..Len(s) |-> s[f[i]]]

\* Draws counted for one shuffle: a sort of fewer than two elements never
\* calls its comparator.
ShuffleCalls(n) == IF n >= 2 THEN 1 ELSE 0

\* { ...item, type: t }
WithType(item, t) ==
    [f \in (DOMAIN item) \cup {"type"} |-> IF f = "type" THEN t ELSE item[f]]

\* Validate without its second check.
ValidateTogetherOnly(min, max) ==
    IF (Truthy(min) /\ ~Truthy(max)) \/ (~Truthy(min) /\ Truthy(max))
    THEN ErrTogether
    ELSE NoError

\* The two validations at the top of the component, after the defaults.
Validate(min, max) ==
    IF (Truthy(min) /\ ~Truthy(max)) \/ (~Truthy(min) /\ Truthy(max))
    THEN ErrTogether
    ELSE IF min > max THEN ErrOrder ELSE NoError

\* Array.from({ length: n }, (_, i) => i) as a set: a length below 0 is 0.
IndicesBelow(n) == 0..(n - 1)

\* ComputeGridItems with data.sort(...) in place of [...data].sort(...).
ComputeGridItemsInPlace(data, min, max, d, f, g) ==
    LET numberOfImages == d + min
        actualNumberOfImages == Min(numberOfImages, Len(data))
        shuffledData == Reorder(data, f)
        imageIndices == IndicesBelow(actualNumberOfImages)
        allItems ==
            [i \in 1..Len(shuffledData) |->
                WithType(shuffledData[i],
                         IF (i - 1) \in imageIndices THEN "image"
                                                     ELSE "placeholder")]
    IN  [data |-> shuffledData, items |-> Reorder(allItems, g)]

\* The gridItems factory: d is the draw for numberOfImages, f and g are the
\* outcomes of the two shuffles.  Returns the contents it leaves in the data
\* array (it sorts a copy, so the same) and the tagged items.
ComputeGridItems(data, min, max, d, f, g) ==
    LET numberOfImages == d + min
        actualNumberOfImages == Min(numberOfImages, Len(data))
        shuffledData == Reorder(data, f)
        imageIndices == IndicesBelow(actualNumberOfImages)
        allItems ==
            [i \in 1..Len(shuffledData) |->
                WithType(shuffledData[i],
                         IF (i - 1) \in imageIndices THEN "image"
                                                     ELSE "placeholder")]
    IN  [data |-> data, items |-> Reorder(allItems, g)]

\* Every result the factory can return for one array, over all its draws.
GridItemsOutcomes(data, min, max) ==
    {ComputeGridItems(data, min, max, d, f, g) :
        d \in RandomInt(max - min + 1),
        f \in Perms(Len(data)),
        g \in Perms(Len(data))}

imageSizeClasses == <<"col-span-4 row-span-4 rounded-lg">>

Fill(n, v) == [i \in 1..n |-> v]

placeholderSizeClasses ==
    Fill(OneByOneSlots, "col-span-1 row-span-1 rounded-sm")
    \o Fill(TwoByTwoSlots, "col-span-2 row-span-2 rounded-md")
    \o Fill(ThreeByThreeSlots, "col-span-3 row-span-3 rounded-lg")

\* table[index] of a JavaScript array: undefined outside the array.
At(table, index) ==
    IF index \in 0..(Len(table) - 1) THEN table[index + 1] ELSE "undefined"

\* The size classes getSizeClass can return for an item, over its draw.
getSizeClass(item) ==
    IF item.type = "image"
    THEN {At(imageSizeClasses, r) : r \in RandomInt(Len(imageSizeClasses))}
    ELSE {At(placeholderSizeClasses, r) :
             r \in RandomInt(Len(placeholderSizeClasses))}

NoKey == "<no key>"

\* The key of the element the gridItems.map callback returns: the Tooltip
\* wrapper carries key={item.id}, the bare tile renderItem() returns has none.
TileKey(item, tooltipContent) == IF tooltipContent THEN item.id ELSE NoKey

\* withTooltip ? withTooltip(item) : null, as "the content is truthy".
TooltipContent(withTooltip, item) ==
    withTooltip.defined /\ item.id \in withTooltip.content

\* The element the gridItems.map callback returns for an item.
renderTile(item, sizeClass, withTooltip) ==
    [key |-> TileKey(item, TooltipContent(withTooltip, item)),
     id |-> item.id,
     type |-> item.type,
     sizeClass |-> sizeClass,
     tooltip |-> TooltipContent(withTooltip, item)]

\* The elements of the array r as the caller created it.
ArrayOf(r) == [i \in 1..Len(r.items) |-> Item(r.items[i])]

\* ------------------------------------------------------------------- Init
Init ==
    /\ dataArray = <<>>
    /\ props = NoProps
    /\ mounted = FALSE
    /\ memoDeps = NoRef
    /\ gridItems = <<>>
    /\ recomputed = FALSE
    /\ children = <<>>
    /\ tiles = <<>>
    /\ pc = "idle"
    /\ error = NoError
    /\ randomCalls = 0
    /\ tooltipCalls = 0
    /\ tooltips = <<>>

\* ---------------------------------------------------------------- actions
\* Throw with the validation placed after the gridItems useMemo.
ThrowAfterMemo(p, msg) ==
    /\ props' = p
    /\ error' = msg
    /\ mounted' = FALSE
    /\ memoDeps' = NoRef
    /\ gridItems' = <<>>
    /\ recomputed' = TRUE
    /\ children' = <<>>
    /\ tiles' = <<>>
    /\ tooltips' = <<>>
    /\ randomCalls' = 1 + 2 * ShuffleCalls(Len(p.data.items))
    /\ tooltipCalls' = 0
    /\ pc' = "idle"
    /\ dataArray' = ArrayOf(p.data)

\* The render throws msg: nothing after the throw runs, and React unmounts
\* the instance, so its hook state and its children are gone.
Throw(p, msg) ==
    /\ props' = p
    /\ error' = msg
    /\ mounted' = FALSE
    /\ memoDeps' = NoRef
    /\ gridItems' = <<>>
    /\ recomputed' = FALSE
    /\ children' = <<>>
    /\ tiles' = <<>>
    /\ tooltips' = <<>>
    /\ randomCalls' = 0
    /\ tooltipCalls' = 0
    /\ pc' = "idle"
    /\ dataArray' = ArrayOf(p.data)

\* SameDeps with an empty dependency list: useMemo(..., []).
SameDepsAlways(p) == mounted

\* SameDeps comparing the elements of the arrays, not the array objects.
SameDepsByContents(p) == mounted /\ memoDeps.items = p.data.items

\* SameDeps with the dependency list the factory's reads call for:
\* useMemo(..., [data, minNumberOfImages, maxNumberOfImages]).
SameDepsWithBounds(p) ==
    /\ mounted
    /\ memoDeps = p.data
    /\ p.minNumberOfImages = props.minNumberOfImages
    /\ p.maxNumberOfImages = props.maxNumberOfImages

\* useMemo(..., [data]) keeps its value when the instance is mounted and the
\* data prop is the array (Object.is) of the render that computed it.
SameDeps(p) == mounted /\ memoDeps = p.data

MemoHit(p) ==
    /\ SameDeps(p)
    /\ dataArray' = ArrayOf(p.data)
    /\ UNCHANGED gridItems
    /\ recomputed' = FALSE
    /\ randomCalls' = 0

MemoMiss(p, min, max) ==
    /\ ~SameDeps(p)
    /\ \E out \in GridItemsOutcomes(ArrayOf(p.data), min, max) :
          /\ dataArray' = out.data
          /\ gridItems' = out.items
    /\ recomputed' = TRUE
    /\ randomCalls' = 1 + 2 * ShuffleCalls(Len(p.data.items))

\* React calls Mosaicify(p): defaults, validation, the gridItems useMemo.
Render(p) ==
    /\ pc = "idle"
    /\ LET min == WithDefault(p.minNumberOfImages, DefaultMin)
           max == WithDefault(p.maxNumberOfImages, DefaultMax)
           msg == Validate(min, max)
       IN  IF msg # NoError
           THEN Throw(p, msg)
           ELSE /\ props' = p
                /\ error' = NoError
                /\ mounted' = TRUE
                /\ memoDeps' = p.data
                /\ \/ MemoHit(p)
                   \/ MemoMiss(p, min, max)
                /\ children' = <<>>
                /\ tooltipCalls' = 0
                /\ pc' = "map"
                /\ UNCHANGED <<tiles, tooltips>>

\* One call of the gridItems.map callback, for the next item.
RenderTile ==
    /\ pc = "map"
    /\ Len(children) < Len(gridItems)
    /\ LET item == gridItems[Len(children) + 1]
       IN  \E sizeClass \in getSizeClass(item) :
              children' =
                  Append(children, renderTile(item, sizeClass, props.withTooltip))
    /\ randomCalls' = randomCalls + 1
    /\ tooltipCalls' = tooltipCalls + (IF props.withTooltip.defined THEN 1 ELSE 0)
    /\ UNCHANGED <<dataArray, props, mounted, memoDeps, gridItems, recomputed,
                   tiles, pc, error, tooltips>>

\* const [isVisible, setIsVisible] = useState(false); last records the last
\* mouse event the instance handled.
InitialTooltip == [isVisible |-> FALSE, last |-> "none"]

TooltipKeys(ts) == {ts[i].key : i \in {j \in 1..Len(ts) : ts[j].tooltip}}

\* React's reconciliation of keyed children: a Tooltip is kept, with its
\* state, when a Tooltip with its key is rendered again, and one with a new
\* key is mounted with the initial state.
Reconcile(old, ts) ==
    [k \in TooltipKeys(ts) |-> IF k \in DOMAIN old THEN old[k] ELSE InitialTooltip]

\* The element is returned and React commits the children.
Commit ==
    /\ pc = "map"
    /\ Len(children) = Len(gridItems)
    /\ tiles' = children
    /\ children' = <<>>
    /\ tooltips' = Reconcile(tooltips, children)
    /\ pc' = "idle"
    /\ recomputed' = FALSE
    /\ randomCalls' = 0
    /\ tooltipCalls' = 0
    /\ UNCHANGED <<dataArray, props, mounted, memoDeps, gridItems, error>>

\* What a mouse event leaves alone: everything but the Tooltip instances.
MosaicifyVars ==
    <<dataArray, props, mounted, memoDeps, gridItems, recomputed, children, tiles,
      pc, error, randomCalls, tooltipCalls>>

\* Tooltip: onMouseEnter={() => setIsVisible(true)}
onMouseEnter(t) == [isVisible |-> TRUE, last |-> "enter"]

\* onMouseLeave that leaves isVisible as it was.
onMouseLeaveKeeps(t) == [isVisible |-> t.isVisible, last |-> "leave"]

\* Tooltip: onMouseLeave={() => setIsVisible(false)}
onMouseLeave(t) == [isVisible |-> FALSE, last |-> "leave"]

MouseEnter(k) ==
    /\ pc = "idle"
    /\ k \in DOMAIN tooltips
    /\ tooltips' = [tooltips EXCEPT ![k] = onMouseEnter(tooltips[k])]
    /\ UNCHANGED MosaicifyVars

MouseLeave(k) ==
    /\ pc = "idle"
    /\ k \in DOMAIN tooltips
    /\ tooltips' = [tooltips EXCEPT ![k] = onMouseLeave(tooltips[k])]
    /\ UNCHANGED MosaicifyVars

Next ==
    \/ \E p \in MosaicifyProps : Render(p)
    \/ RenderTile
    \/ Commit
    \/ \E k \in Ids : MouseEnter(k)
    \/ \E k \in Ids : MouseLeave(k)

Spec == Init /\ [][Next]_vars

\* ------------------------------------------------------------- properties
MinOf(p) == WithDefault(p.minNumberOfImages, DefaultMin)
MaxOf(p) == WithDefault(p.maxNumberOfImages, DefaultMax)

\* A render has been committed and its instance is mounted: tiles is what
\* it rendered.
Rendered == pc = "idle" /\ mounted

\* A render has run its whole gridItems.map and is about to return.
MapDone == pc = "map" /\ Len(children) = Len(gridItems)

TilesOf(ts, t) == {i \in 1..Len(ts) : ts[i].type = t}
IdsOf(ts) == {ts[i].id : i \in 1..Len(ts)}
Occurrences(ts, id) == Cardinality({i \in 1..Len(ts) : ts[i].id = id})

\* C1: a committed render has exactly one tile per element of data: as many
\* tiles as data has elements, no item dropped, none rendered twice.
TilesMatchData ==
    Rendered =>
        /\ Len(tiles) = Len(dataArray)
        /\ \A i \in 1..Len(dataArray) : Occurrences(tiles, dataArray[i].id) = 1

TilesMatchDataWitness ==
    /\ Rendered
    /\ Len(tiles) >= 2
    /\ TilesOf(tiles, "image") # {}
    /\ TilesOf(tiles, "placeholder") # {}
    /\ props.withTooltip.defined
    /\ TilesMatchData

\* C2: in every committed render the number of image tiles is
\* min(k, data.length) for some k between the min and max of that render.
ImageCountWithinConfiguredBounds ==
    Rendered =>
        \E k \in MinOf(props)..MaxOf(props) :
            Cardinality(TilesOf(tiles, "image")) = Min(k, Len(dataArray))

\* C3: when exactly one of minNumberOfImages and maxNumberOfImages is
\* supplied, the render raises the "provided together" error.
OnlyOneSuppliedRaises ==
    ((props.minNumberOfImages = Undefined) # (props.maxNumberOfImages = Undefined))
        => error = ErrTogether

\* C4: whenever min > max the render raises an error and there is no grid.
InvertedBoundsRaise ==
    MinOf(props) > MaxOf(props) =>
        /\ error \in {ErrTogether, ErrOrder}
        /\ pc = "idle"
        /\ ~mounted
        /\ tiles = <<>>
        /\ children = <<>>

InvertedBoundsRaiseWitness ==
    /\ props.minNumberOfImages = <<2>>
    /\ props.maxNumberOfImages = <<1>>
    /\ error = ErrOrder
    /\ tiles = <<>>

\* C5: every tile carries a key equal to its item's id, and no two tiles of
\* one render share a key.
TileKeysAreIds ==
    /\ \A i \in 1..Len(tiles) : tiles[i].key = tiles[i].id
    /\ \A i, j \in 1..Len(tiles) : tiles[i].key = tiles[j].key => i = j

\* The items are the elements of data, each once and each tagged.
TaggedFrom(items, data) ==
    /\ Len(items) = Len(data)
    /\ \A i \in 1..Len(data) :
          Cardinality({j \in 1..Len(items) :
              \E t \in {"image", "placeholder"} :
                  items[j] = WithType(data[i], t)}) = 1

\* C6: a render whose data prop is another list than the previous render's
\* runs the gridItems factory, and the items it memoizes are the elements of
\* the new list, each once and each tagged.
DataChangeRecomputes ==
    [][(pc = "idle" /\ pc' = "map" /\ props'.data # props.data)
        => (recomputed' /\ TaggedFrom(gridItems', dataArray'))]_vars

DataChangeRecomputesWitness ==
    /\ pc = "map"
    /\ mounted
    /\ recomputed
    /\ tiles # <<>>
    /\ IdsOf(tiles) \cap IdsOf(gridItems) = {}
    /\ Len(gridItems) >= 1
    /\ TaggedFrom(gridItems, dataArray)

PlaceholderSizes ==
    {"col-span-1 row-span-1 rounded-sm",
     "col-span-2 row-span-2 rounded-md",
     "col-span-3 row-span-3 rounded-lg"}

Slots(c) ==
    Cardinality({i \in 1..Len(placeholderSizeClasses) :
                    placeholderSizeClasses[i] = c})

SizeClassOk(tile) ==
    IF tile.type = "image"
    THEN tile.sizeClass = "col-span-4 row-span-4 rounded-lg"
    ELSE tile.sizeClass \in PlaceholderSizes

\* C7: every image tile has the 4x4 class and every placeholder tile one of
\* the three classes of the 14-slot table (10, 3 and 1 slots), never
\* undefined; and in every render pass, memoized tagging or not, each of the
\* three classes can be drawn for a placeholder.
SizeClassesFromTable ==
    /\ Len(placeholderSizeClasses) = 14
    /\ Slots("col-span-1 row-span-1 rounded-sm") = 10
    /\ Slots("col-span-2 row-span-2 rounded-md") = 3
    /\ Slots("col-span-3 row-span-3 rounded-lg") = 1
    /\ \A i \in 1..Len(tiles) : SizeClassOk(tiles[i])
    /\ \A i \in 1..Len(children) : SizeClassOk(children[i])
    /\ (pc = "map" /\ Len(children) < Len(gridItems)
            /\ gridItems[Len(children) + 1].type = "placeholder")
        => \A c \in PlaceholderSizes :
              ENABLED (RenderTile /\ children'[Len(children')].sizeClass = c)

\* A re-render that kept the memoized items drew another size for an item.
SizeClassesFromTableWitness ==
    /\ MapDone
    /\ ~recomputed
    /\ Len(tiles) = Len(children)
    /\ \E i \in 1..Len(children) :
          /\ children[i].id = tiles[i].id
          /\ children[i].type = "placeholder"
          /\ children[i].sizeClass # tiles[i].sizeClass
    /\ \E i \in 1..Len(children) : children[i].type = "image"

\* A step in which a mounted Tooltip handled a mouse event.
HoverStep == pc = "idle" /\ pc' = "idle" /\ mounted /\ mounted' /\ tooltips' # tooltips

\* C8: a Tooltip starts hidden and shows its content exactly when the last
\* mouse event on it was mouse-enter; a mouse event changes one Tooltip
\* instance and nothing else, in particular not the grid items.
TooltipFollowsHover ==
    /\ [](\A k \in DOMAIN tooltips :
             tooltips[k].isVisible <=> tooltips[k].last = "enter")
    /\ [][HoverStep =>
            /\ UNCHANGED MosaicifyVars
            /\ DOMAIN tooltips' = DOMAIN tooltips
            /\ \E k \in DOMAIN tooltips :
                  \A j \in DOMAIN tooltips \ {k} : tooltips'[j] = tooltips[j]]_vars

TooltipFollowsHoverWitness ==
    /\ Rendered
    /\ \E k, j \in DOMAIN tooltips :
          /\ tooltips[k].isVisible
          /\ tooltips[k].last = "enter"
          /\ ~tooltips[j].isVisible
          /\ tooltips[j].last = "leave"

\* C9: props that fail validation raise on every render attempt, before any
\* random draw, before the grid items are computed and before withTooltip
\* is called.
InvalidFailsBeforeAnyWork ==
    /\ Validate(MinOf(props), MaxOf(props)) # NoError
        => (error = Validate(MinOf(props), MaxOf(props)) /\ pc = "idle" /\ ~mounted)
    /\ error # NoError
        => /\ randomCalls = 0
           /\ tooltipCalls = 0
           /\ ~recomputed
           /\ gridItems = <<>>
           /\ children = <<>>
           /\ tiles = <<>>

InvalidFailsBeforeAnyWorkWitness ==
    /\ error = ErrTogether
    /\ props.withTooltip.defined
    /\ Len(props.data.items) >= 2
    /\ randomCalls = 0
    /\ tooltipCalls = 0

\* C10: the caller's data array is as the caller created it: same length,
\* same elements in the same order, no element with a type field it was
\* not created with.
DataNeverMutated ==
    /\ dataArray = ArrayOf(props.data)
    /\ \A i \in 1..Len(dataArray) :
          DOMAIN dataArray[i] = DOMAIN Item(props.data.items[i])

DataNeverMutatedWitness ==
    /\ Rendered
    /\ Len(dataArray) >= 2
    /\ gridItems[1].id # dataArray[1].id
    /\ DataNeverMutated

BothSupplied(p) ==
    p.minNumberOfImages # Undefined /\ p.maxNumberOfImages # Undefined

\* C11: when min and max are both supplied, non-negative and min <= max, the
\* render raises no error; when both are 0 a first render tags no item image.
OrderedBoundsPass ==
    (props # NoProps /\ BothSupplied(props)
        /\ props.minNumberOfImages[1] >= 0
        /\ props.minNumberOfImages[1] <= props.maxNumberOfImages[1])
    => /\ error = NoError
       /\ (recomputed /\ props.maxNumberOfImages[1] = 0)
            => TilesOf(gridItems, "image") = {}

\* The grid item g is the data element item with a type tag added: every
\* field of item is in g with its value, and g has no other field but type.
AddsTagTo(g, item) ==
    /\ DOMAIN g = (DOMAIN item) \cup {"type"}
    /\ \A f \in DOMAIN item : g[f] = item[f]
    /\ g.type \in {"image", "placeholder"}

\* C12: the grid items are a permutation of data: every element of data is
\* the source of exactly one grid item, every grid item has a source, and a
\* grid item differs from its source only by the added type tag.
GridItemsPermuteData ==
    mounted =>
        /\ Len(gridItems) = Len(dataArray)
        /\ \A i \in 1..Len(dataArray) :
              Cardinality({j \in 1..Len(gridItems) :
                              AddsTagTo(gridItems[j], dataArray[i])}) = 1
        /\ \A j \in 1..Len(gridItems) :
              \E i \in 1..Len(dataArray) : AddsTagTo(gridItems[j], dataArray[i])

\* The ids and tags of a list of grid items or tiles, in order.
Selection(ts) == [i \in 1..Len(ts) |-> <<ts[i].id, ts[i].type>>]

====
